---- MODULE Spec2Model ----
(***************************************************************************)
(* The expense ledger of Spend-Wise: class ExpenseManager of src/main.py.  *)
(* One process at a time owns the ledger (expenses, income,                *)
(* spending_limits) and the JSON file it is saved to.  Amounts are         *)
(* modelled by their numeric value in whole currency units.                *)
(***************************************************************************)
EXTENDS Integers, Sequences, FiniteSets, TLC

\* ---- bound of the model -------------------------------------------------
MaxRecords == 2      \* add_expense is not called on a ledger of this length

\* ---- what callers supply ------------------------------------------------
Amounts == {-1, 0, 1}                  \* float(input(...)) of the front ends
EditAmounts == {0, 1}
Categories == {"food", "rent"}
Today == "2024-05-01"                  \* datetime.now().strftime('%Y-%m-%d')
NoDate == ""                           \* date=None, or the empty CLI answer
Dates == {Today}
Descriptions == {""}
Ids == 1 .. MaxRecords + 1             \* the ids a caller asks for
PeriodKinds == {"daily", "monthly", "yearly"}
LimitTypes == {"daily", "yearly", "weekly"}   \* the kinds a caller asks for
Fields == {"id", "amount", "category", "date", "description"}
Keys == Fields \cup {"note"}           \* "note" is a key no record has

\* ---- how a call ends ----------------------------------------------------
Ok == "ok"
ErrAmount == "ValueError: Expense amount must be positive"
ErrNotFound == "ValueError: No expense found with ID"
ErrIncome == "ValueError: Income cannot be negative"
ErrLimitType == "ValueError: Invalid limit type"
ErrLimit == "ValueError: Spending limit cannot be negative"
ErrAttribute == "AttributeError: 'list' object has no attribute 'get'"

VARIABLES
    pc,               \* "down": no process; "up": an ExpenseManager exists
    expenses,         \* self.expenses
    income,           \* self.income
    spending_limits,  \* self.spending_limits
    disk,             \* the content of self.data_file
    op,               \* the last call made
    result,           \* how it ended: Ok or the exception raised
    ret,              \* what it returned: <<>> (None) or <<record>>
    io,               \* its save_data: "none", "ok" or "failed"
    met               \* not program state: whether the last edit_expense call
                      \* did to the ledger what its arguments ask for
                      \* (EditContract, evaluated on the step of the call)

vars == <<pc, expenses, income, spending_limits, disk, op, result, ret, io, met>>
ledger == <<expenses, income, spending_limits>>

\* ---- the ledger and the file --------------------------------------------
EmptyLimits == [k \in PeriodKinds |-> 0]

\* The file's possible contents: no file, a file open() cannot read, text
\* that is not JSON, a JSON array, a JSON object.
Absent == [kind |-> "absent", data |-> <<>>]
Unreadable == [kind |-> "unreadable", data |-> <<>>]
Garbage == [kind |-> "garbage", data |-> <<>>]
JsonArray == [kind |-> "array", data |-> <<>>]
JsonObject(members) == [kind |-> "object", data |-> members]

\* json.dump of the dictionary save_data builds.
json_dump(e, i, l) ==
    JsonObject([expenses |-> e, income |-> i, spending_limits |-> l])

\* dict.get(key, default) on a parsed JSON object.
dict_get(d, key, default) == IF key \in DOMAIN d THEN d[key] ELSE default

\* float(amount). The front ends pass floats already (float(input(...))),
\* and a number is modelled by its value, which float() keeps: Python's ==
\* and <= compare an int and a float by value.
float(x) == x

\* float('nan'), which float(input(...)) returns for the text "nan". It is
\* modelled by a number no caller supplies, and every comparison of amounts
\* that the code makes goes through lt and le: Python's < and <= are False
\* when either side is nan.
NaN == -99
lt(a, b) == a # NaN /\ b # NaN /\ a < b
le(a, b) == a # NaN /\ b # NaN /\ a <= b

\* load_data reading the limits under the key "limits".
load_data_limits(file, e, i, l) ==
    CASE file.kind = "absent" -> <<Ok, e, i, l>>
      [] file.kind \in {"unreadable", "garbage"} -> <<Ok, <<>>, 0, EmptyLimits>>
      [] file.kind = "array" -> <<ErrAttribute, e, i, l>>
      [] OTHER -> <<Ok, dict_get(file.data, "expenses", <<>>),
                        dict_get(file.data, "income", 0),
                        dict_get(file.data, "limits", EmptyLimits)>>

\* What load_data does to the ledger <<e, i, l>> that __init__ has just set:
\* <<how it ends, expenses, income, spending_limits>>.
load_data(file, e, i, l) ==
    CASE file.kind = "absent" -> <<Ok, e, i, l>>
      [] file.kind \in {"unreadable", "garbage"} -> <<Ok, <<>>, 0, EmptyLimits>>
      [] file.kind = "array" -> <<ErrAttribute, e, i, l>>
      [] OTHER -> <<Ok, dict_get(file.data, "expenses", <<>>),
                        dict_get(file.data, "income", 0),
                        dict_get(file.data, "spending_limits", EmptyLimits)>>

\* The file after save_data. how = "ok": written; "open": open() raised
\* IOError and the file is as it was; "write": the write raised IOError
\* after open() had truncated the file.
SaveOutcomes == {"ok", "open", "write"}
save_data(how, e, i, l) ==
    CASE how = "ok" -> json_dump(e, i, l)
      [] how = "open" -> disk
      [] OTHER -> Garbage

Saved(how) == IF how = "ok" THEN "ok" ELSE "failed"

\* ---- operations ---------------------------------------------------------
\* ExpenseManager(): __init__ and the load_data it ends with.
Construct ==
    /\ pc = "down"
    /\ LET r == load_data(disk, <<>>, 0, EmptyLimits) IN
        /\ result' = r[1]
        /\ pc' = IF r[1] = Ok THEN "up" ELSE "down"
        /\ expenses' = IF r[1] = Ok THEN r[2] ELSE <<>>
        /\ income' = IF r[1] = Ok THEN r[3] ELSE 0
        /\ spending_limits' = IF r[1] = Ok THEN r[4] ELSE EmptyLimits
    /\ op' = "ExpenseManager"
    /\ ret' = <<>>
    /\ io' = "none"
    /\ UNCHANGED <<disk, met>>

\* The process ends; the ledger object is gone.
Exit ==
    /\ pc = "up"
    /\ pc' = "down"
    /\ expenses' = <<>>
    /\ income' = 0
    /\ spending_limits' = EmptyLimits
    /\ op' = "exit"
    /\ result' = Ok
    /\ ret' = <<>>
    /\ io' = "none"
    /\ UNCHANGED <<disk, met>>

Raise(error) ==
    /\ result' = error
    /\ ret' = <<>>
    /\ io' = "none"
    /\ UNCHANGED <<pc, expenses, income, spending_limits, disk>>

\* add_expense refusing only the amounts below 0.
add_expense_zero(amount, category, date, description, how) ==
    /\ pc = "up"
    /\ op' = "add_expense"
    /\ IF lt(amount, 0)
       THEN Raise(ErrAmount)
       ELSE LET expense == [id |-> Len(expenses) + 1,
                            amount |-> float(amount),
                            category |-> category,
                            date |-> IF date = NoDate THEN Today ELSE date,
                            description |-> description]
            IN  /\ expenses' = Append(expenses, expense)
                /\ disk' = save_data(how, expenses', income, spending_limits)
                /\ io' = Saved(how)
                /\ result' = Ok
                /\ ret' = <<expense>>
                /\ UNCHANGED <<pc, income, spending_limits>>

add_expense(amount, category, date, description, how) ==
    /\ pc = "up"
    /\ op' = "add_expense"
    /\ IF le(amount, 0)
       THEN Raise(ErrAmount)
       ELSE LET expense == [id |-> Len(expenses) + 1,
                            amount |-> float(amount),
                            category |-> category,
                            date |-> IF date = NoDate THEN Today ELSE date,
                            description |-> description]
            IN  /\ expenses' = Append(expenses, expense)
                /\ disk' = save_data(how, expenses', income, spending_limits)
                /\ io' = Saved(how)
                /\ result' = Ok
                /\ ret' = <<expense>>
                /\ UNCHANGED <<pc, income, spending_limits>>

\* The index of the first record with this id, 0 if there is none.
FirstWithId(expense_id) ==
    IF \E j \in 1..Len(expenses) : expenses[j].id = expense_id
    THEN CHOOSE j \in 1..Len(expenses) :
            /\ expenses[j].id = expense_id
            /\ \A k \in 1..(j - 1) : expenses[k].id # expense_id
    ELSE 0

\* The record replaced by the keyword arguments, supplied or not.
UpdatedAll(expense, keys, val) == [f \in Fields |-> val[f]]

\* The loop over kwargs.items(): a key the record has takes the value.
Updated(expense, keys, val) ==
    [f \in Fields |-> IF f \in keys THEN val[f] ELSE expense[f]]

edit_expense(expense_id, keys, val, how) ==
    /\ pc = "up"
    /\ op' = "edit_expense"
    /\ LET j == FirstWithId(expense_id) IN
       IF j = 0
       THEN Raise(ErrNotFound)
       ELSE /\ expenses' = [expenses EXCEPT ![j] = Updated(@, keys, val)]
            /\ disk' = save_data(how, expenses', income, spending_limits)
            /\ io' = Saved(how)
            /\ result' = Ok
            /\ ret' = <<expenses'[j]>>
            /\ UNCHANGED <<pc, income, spending_limits>>

\* delete_expense without its save_data.
delete_expense_unsaved(expense_id, how) ==
    /\ pc = "up"
    /\ op' = "delete_expense"
    /\ expenses' = SelectSeq(expenses, LAMBDA exp : exp.id # expense_id)
    /\ io' = "none"
    /\ result' = Ok
    /\ ret' = <<>>
    /\ UNCHANGED <<pc, income, spending_limits, disk>>

\* delete_expense removing the first record with the id only.
delete_expense_first(expense_id, how) ==
    /\ pc = "up"
    /\ op' = "delete_expense"
    /\ LET j == FirstWithId(expense_id) IN
        expenses' = IF j = 0 THEN expenses
                    ELSE SubSeq(expenses, 1, j - 1)
                            \o SubSeq(expenses, j + 1, Len(expenses))
    /\ disk' = save_data(how, expenses', income, spending_limits)
    /\ io' = Saved(how)
    /\ result' = Ok
    /\ ret' = <<>>
    /\ UNCHANGED <<pc, income, spending_limits>>

delete_expense(expense_id, how) ==
    /\ pc = "up"
    /\ op' = "delete_expense"
    /\ expenses' = SelectSeq(expenses, LAMBDA exp : exp.id # expense_id)
    /\ disk' = save_data(how, expenses', income, spending_limits)
    /\ io' = Saved(how)
    /\ result' = Ok
    /\ ret' = <<>>
    /\ UNCHANGED <<pc, income, spending_limits>>

\* set_income storing the amount before it checks it.
set_income_first(amount, how) ==
    /\ pc = "up"
    /\ op' = "set_income"
    /\ income' = float(amount)
    /\ IF lt(amount, 0)
       THEN /\ result' = ErrIncome
            /\ ret' = <<>>
            /\ io' = "none"
            /\ UNCHANGED <<pc, expenses, spending_limits, disk>>
       ELSE /\ disk' = save_data(how, expenses, income', spending_limits)
            /\ io' = Saved(how)
            /\ result' = Ok
            /\ ret' = <<>>
            /\ UNCHANGED <<pc, expenses, spending_limits>>

\* set_income undoing the assignment when its save_data fails.
set_income_rollback(amount, how) ==
    /\ pc = "up"
    /\ op' = "set_income"
    /\ IF lt(amount, 0)
       THEN Raise(ErrIncome)
       ELSE /\ income' = IF how = "ok" THEN float(amount) ELSE income
            /\ disk' = save_data(how, expenses, income', spending_limits)
            /\ io' = Saved(how)
            /\ result' = Ok
            /\ ret' = <<>>
            /\ UNCHANGED <<pc, expenses, spending_limits>>

set_income(amount, how) ==
    /\ pc = "up"
    /\ op' = "set_income"
    /\ IF lt(amount, 0)
       THEN Raise(ErrIncome)
       ELSE /\ income' = float(amount)
            /\ disk' = save_data(how, expenses, income', spending_limits)
            /\ io' = Saved(how)
            /\ result' = Ok
            /\ ret' = <<>>
            /\ UNCHANGED <<pc, expenses, spending_limits>>

set_spending_limit(limit_type, amount, how) ==
    /\ pc = "up"
    /\ op' = "set_spending_limit"
    /\ IF limit_type \notin PeriodKinds
       THEN Raise(ErrLimitType)
       ELSE IF lt(amount, 0)
       THEN Raise(ErrLimit)
       ELSE /\ spending_limits' =
                  [spending_limits EXCEPT ![limit_type] = float(amount)]
            /\ disk' = save_data(how, expenses, income, spending_limits')
            /\ io' = Saved(how)
            /\ result' = Ok
            /\ ret' = <<>>
            /\ UNCHANGED <<pc, expenses, income>>

\* ---- the calls the front ends make ---------------------------------------
\* In this specification storage is reliable: every save_data writes.
Reliable == {"ok"}

\* The keyword arguments of one edit_expense call: the keys supplied and a
\* value for each (the value of a key that is not supplied is never read).
KeySets == {S \in SUBSET Keys : Cardinality(S) <= 1} \cup {{"amount", "category"}}
ValuesFor(keys) ==
    [id : IF "id" \in keys THEN 1 .. MaxRecords ELSE {0},
     amount : IF "amount" \in keys THEN EditAmounts ELSE {0},
     category : IF "category" \in keys THEN Categories ELSE {""},
     date : IF "date" \in keys THEN Dates ELSE {""},
     description : IF "description" \in keys THEN Descriptions ELSE {""},
     note : {""}]

\* What a call edit_expense(expense_id, **kwargs) is to do to the ledger,
\* as a relation between the states before and after it.
EditContract(expense_id, keys, val) ==
    [rejects |->
        (\A j \in 1..Len(expenses) : expenses[j].id # expense_id)
            => /\ result' = ErrNotFound
               /\ expenses' = expenses
               /\ income' = income
               /\ spending_limits' = spending_limits
               /\ disk' = disk,
     sparse |->
        \A j \in 1..Len(expenses) :
            (/\ expenses[j].id = expense_id
             /\ \A k \in 1..(j - 1) : expenses[k].id # expense_id)
            => /\ result' = Ok
               /\ Len(expenses') = Len(expenses)
               /\ \A k \in 1..Len(expenses) : k # j => expenses'[k] = expenses[k]
               /\ \A f \in Fields \cap keys : expenses'[j][f] = val[f]
               /\ \A f \in Fields \ keys : expenses'[j][f] = expenses[j][f]
               /\ income' = income
               /\ spending_limits' = spending_limits]

Met == [rejects |-> TRUE, sparse |-> TRUE]

AddExpense ==
    \E amount \in Amounts, category \in Categories,
       date \in {NoDate} \cup Dates,
       description \in Descriptions, how \in Reliable :
        /\ Len(expenses) < MaxRecords
        /\ add_expense(amount, category, date, description, how)
        /\ UNCHANGED met

EditExpense ==
    \E expense_id \in Ids, keys \in KeySets, how \in Reliable :
        \E val \in ValuesFor(keys) :
            /\ edit_expense(expense_id, keys, val, how)
            /\ met' = EditContract(expense_id, keys, val)

DeleteExpense ==
    \E expense_id \in Ids, how \in Reliable :
        /\ delete_expense(expense_id, how)
        /\ UNCHANGED met

SetIncome ==
    \E amount \in Amounts, how \in Reliable :
        /\ set_income(amount, how)
        /\ UNCHANGED met

SetSpendingLimit ==
    \E limit_type \in LimitTypes, amount \in Amounts, how \in Reliable :
        /\ set_spending_limit(limit_type, amount, how)
        /\ UNCHANGED met

\* Before the first run the file is absent or is whatever was left there.
Init ==
    /\ pc = "down"
    /\ expenses = <<>>
    /\ income = 0
    /\ spending_limits = EmptyLimits
    /\ disk \in {Absent, Unreadable, Garbage, JsonArray, JsonObject(<<>>)}
    /\ op = "none"
    /\ result = Ok
    /\ ret = <<>>
    /\ io = "none"
    /\ met = Met

Next ==
    \/ Construct
    \/ Exit
    \/ AddExpense
    \/ EditExpense
    \/ DeleteExpense
    \/ SetIncome
    \/ SetSpendingLimit

Spec == Init /\ [][Next]_vars

\* ---- a session whose storage can fail ------------------------------------
\* The same calls with a save_data that may raise IOError inside its try,
\* from open() or from the write.
FaultCategories == {"food"}
FaultAmounts == {1}
FaultKeySets == {{"category"}}
FaultLimitTypes == {"daily"}

AddExpenseIO ==
    \E amount \in FaultAmounts, category \in FaultCategories, how \in SaveOutcomes :
        /\ Len(expenses) < MaxRecords
        /\ add_expense(amount, category, NoDate, "", how)
        /\ UNCHANGED met

EditExpenseIO ==
    \E expense_id \in Ids, keys \in FaultKeySets, how \in SaveOutcomes :
        \E val \in ValuesFor(keys) :
            /\ edit_expense(expense_id, keys, val, how)
            /\ met' = EditContract(expense_id, keys, val)

DeleteExpenseIO ==
    \E expense_id \in Ids, how \in SaveOutcomes :
        /\ delete_expense(expense_id, how)
        /\ UNCHANGED met

SetIncomeIO ==
    \E amount \in FaultAmounts, how \in SaveOutcomes :
        /\ set_income(amount, how)
        /\ UNCHANGED met

SetSpendingLimitIO ==
    \E limit_type \in FaultLimitTypes, amount \in FaultAmounts, how \in SaveOutcomes :
        /\ set_spending_limit(limit_type, amount, how)
        /\ UNCHANGED met

FaultNext ==
    \/ Construct
    \/ Exit
    \/ AddExpenseIO
    \/ EditExpenseIO
    \/ DeleteExpenseIO
    \/ SetIncomeIO
    \/ SetSpendingLimitIO

FaultSpec == Init /\ [][FaultNext]_vars

\* ---- the reports ----------------------------------------------------------
ErrKey == "KeyError: 'amount'"
ErrDate == "ValueError: time data does not match format '%Y-%m-%d'"

\* datetime.now(), the day whose strftime('%Y-%m-%d') is Today.
now == [year |-> 2024, month |-> 5, day |-> 1]

\* The date strings of this model that datetime.strptime(s, '%Y-%m-%d')
\* accepts (%m and %d take one digit or two), and what it returns for them.
matches_format(date_string) ==
    date_string \in {"2024-05-01", "2024-5-1", "2023-05-20", "2024-02-10"}
strptime(date_string) ==
    CASE date_string \in {"2024-05-01", "2024-5-1"} ->
            [year |-> 2024, month |-> 5, day |-> 1]
      [] date_string = "2023-05-20" -> [year |-> 2023, month |-> 5, day |-> 20]
      [] date_string = "2024-02-10" -> [year |-> 2024, month |-> 2, day |-> 10]

\* sum() of a sequence of numbers.
RECURSIVE sum(_)
sum(values) ==
    IF values = <<>> THEN 0
    ELSE sum(SubSeq(values, 1, Len(values) - 1)) + values[Len(values)]

\* exp['amount'] for exp in records.
amounts_of(records) == [j \in 1..Len(records) |-> records[j].amount]

\* The loop of get_expenses_by_category keeping the last amount of a category.
RECURSIVE category_totals_last(_)
category_totals_last(records) ==
    IF records = <<>> THEN <<>>
    ELSE LET category_totals == category_totals_last(SubSeq(records, 1, Len(records) - 1))
             expense == records[Len(records)]
         IN  [c \in DOMAIN category_totals \cup {expense.category} |->
                IF c = expense.category
                THEN expense.amount
                ELSE category_totals[c]]

\* The loop of get_expenses_by_category over records, first to last.
RECURSIVE category_totals(_)
category_totals(records) ==
    IF records = <<>> THEN <<>>
    ELSE LET totals == category_totals(SubSeq(records, 1, Len(records) - 1))
             expense == records[Len(records)]
         IN  [c \in DOMAIN totals \cup {expense.category} |->
                IF c = expense.category
                THEN dict_get(totals, expense.category, 0) + expense.amount
                ELSE totals[c]]

get_expenses_by_category ==
    /\ pc = "up"
    /\ op' = "get_expenses_by_category"
    /\ result' = Ok
    /\ ret' = <<category_totals(expenses)>>
    /\ io' = "none"
    /\ UNCHANGED <<pc, expenses, income, spending_limits, disk>>

daily_expenses ==
    sum(amounts_of(SelectSeq(expenses, LAMBDA exp :
            LET d == strptime(exp.date) IN
            /\ d.year = now.year /\ d.month = now.month /\ d.day = now.day)))

\* monthly_expenses counting the records of the current month of this year.
monthly_expenses_this_year ==
    sum(amounts_of(SelectSeq(expenses, LAMBDA exp :
            /\ strptime(exp.date).month = now.month
            /\ strptime(exp.date).year = now.year)))

monthly_expenses ==
    sum(amounts_of(SelectSeq(expenses, LAMBDA exp :
            strptime(exp.date).month = now.month)))

yearly_expenses ==
    sum(amounts_of(SelectSeq(expenses, LAMBDA exp :
            strptime(exp.date).year = now.year)))

\* pd.DataFrame([]) has no column, and df['amount'] raises KeyError; the
\* first strptime of a date that does not match the format raises ValueError.
generate_expense_report ==
    /\ pc = "up"
    /\ op' = "generate_expense_report"
    /\ IF expenses = <<>>
       THEN Raise(ErrKey)
       ELSE IF \E j \in 1..Len(expenses) : ~matches_format(expenses[j].date)
       THEN Raise(ErrDate)
       ELSE LET total_expenses == sum(amounts_of(expenses)) IN
            /\ result' = Ok
            /\ ret' = <<[total_expenses |-> total_expenses,
                         category_breakdown |-> category_totals(expenses),
                         income |-> income,
                         remaining_budget |-> income - total_expenses,
                         spending_limits |-> spending_limits,
                         current_expenses |-> [daily |-> daily_expenses,
                                               monthly |-> monthly_expenses,
                                               yearly |-> yearly_expenses]]>>
            /\ io' = "none"
            /\ UNCHANGED <<pc, expenses, income, spending_limits, disk>>

\* ---- a session typing any float ------------------------------------------
\* float(input(...)) accepts every text float() parses, "nan" among them.
FloatAmounts == {-1, 0, 1, NaN}
FloatLimitTypes == {"daily", "weekly"}

SetFloatIncome ==
    \E amount \in FloatAmounts :
        /\ set_income(amount, "ok")
        /\ UNCHANGED met

SetFloatSpendingLimit ==
    \E limit_type \in FloatLimitTypes, amount \in FloatAmounts :
        /\ set_spending_limit(limit_type, amount, "ok")
        /\ UNCHANGED met

FloatNext ==
    \/ Construct
    \/ Exit
    \/ AddExpense
    \/ EditExpense
    \/ DeleteExpense
    \/ SetFloatIncome
    \/ SetFloatSpendingLimit

FloatSpec == Init /\ [][FloatNext]_vars

\* A session that records dated expenses and asks for the reports.
ReportAmounts == {1, 2}
ReportDates == {NoDate, "2024-5-1", "2023-05-20", "2024-02-10", "soon"}
ReportIncomes == {0, 3}
ReportRecords == MaxRecords + 1        \* the longest ledger reported on

AddDatedExpense ==
    \E amount \in ReportAmounts, category \in Categories, date \in ReportDates :
        /\ Len(expenses) < ReportRecords
        /\ add_expense(amount, category, date, "", "ok")
        /\ UNCHANGED met

SetReportIncome ==
    \E amount \in ReportIncomes :
        /\ set_income(amount, "ok")
        /\ UNCHANGED met

GetExpensesByCategory ==
    /\ get_expenses_by_category
    /\ UNCHANGED met

GenerateExpenseReport ==
    /\ generate_expense_report
    /\ UNCHANGED met

ReportNext ==
    \/ Construct
    \/ AddDatedExpense
    \/ SetReportIncome
    \/ GetExpensesByCategory
    \/ GenerateExpenseReport

ReportSpec == Init /\ [][ReportNext]_vars

\* ---- the ledger's invariants ---------------------------------------------
\* C1: no two records of the ledger have the same id.
UniqueIds ==
    \A i, j \in 1..Len(expenses) : i # j => expenses[i].id # expenses[j].id

\* C2: every record of the ledger has amount > 0.
PositiveAmounts ==
    \A j \in 1..Len(expenses) : expenses[j].amount > 0

\* ---- persistence ----------------------------------------------------------
Mutators == {"add_expense", "edit_expense", "delete_expense", "set_income",
             "set_spending_limit"}

\* C3: when a mutating operation has returned normally and its write did not
\* fail, the file holds the ledger as it is in memory.
DurableAfterMutation ==
    (op \in Mutators /\ result = Ok /\ io # "failed")
        => disk = json_dump(expenses, income, spending_limits)

DurableReached ==
    /\ op = "set_spending_limit" /\ result = Ok /\ io = "ok"
    /\ Len(expenses) > 0 /\ income > 0 /\ spending_limits["daily"] > 0

\* ---- add_expense ----------------------------------------------------------
\* C4: add_expense with amount > 0 returns normally, appends one record at
\* the end and returns it, its amount the one supplied; with amount <= 0 it
\* raises "amount must be positive" and the records and the file are as before.
AddContract ==
    [][\A amount \in Amounts, category \in Categories, date \in {NoDate} \cup Dates,
          description \in Descriptions, how \in Reliable :
            add_expense(amount, category, date, description, how) =>
                IF amount > 0
                THEN /\ result' = Ok
                     /\ Len(expenses') = Len(expenses) + 1
                     /\ SubSeq(expenses', 1, Len(expenses)) = expenses
                     /\ ret' = <<expenses'[Len(expenses')]>>
                     /\ ret'[1].amount = amount
                ELSE /\ result' = ErrAmount
                     /\ expenses' = expenses
                     /\ disk' = disk]_vars

AddReached ==
    /\ op = "add_expense" /\ result = Ok
    /\ Len(expenses) = 2 /\ ret = <<expenses[2]>> /\ ret[1].amount = 1

\* ---- failed validation ----------------------------------------------------
\* C5: edit_expense on an id no record has raises "no expense found",
\* set_income with a negative amount raises "income cannot be negative",
\* set_spending_limit raises "invalid limit type" for a kind other than
\* daily, monthly, yearly and "limit cannot be negative" for a negative amount
\* of a valid kind; a call that raises one of these leaves records, income,
\* limits and the file as they were.
ValidationErrors == {ErrNotFound, ErrIncome, ErrLimitType, ErrLimit}
FailedValidationAppliesNothing ==
    [][/\ result' \in ValidationErrors => (ledger' = ledger /\ disk' = disk)
       /\ met'.rejects
       /\ \A amount \in Amounts, how \in Reliable :
            (set_income(amount, how) /\ amount < 0) => result' = ErrIncome
       /\ \A limit_type \in LimitTypes, amount \in Amounts, how \in Reliable :
            set_spending_limit(limit_type, amount, how) =>
                /\ limit_type \notin {"daily", "monthly", "yearly"}
                        => result' = ErrLimitType
                /\ (limit_type \in {"daily", "monthly", "yearly"} /\ amount < 0)
                        => result' = ErrLimit]_vars

FailedValidationReached ==
    /\ op = "edit_expense" /\ result = ErrNotFound
    /\ Len(expenses) > 0 /\ income > 0

\* ---- edit_expense ---------------------------------------------------------
\* C6: edit_expense on an id a record has gives the supplied fields of the
\* first such record the supplied values and leaves its other fields, every
\* other record, the order, income and limits as they were; with no field
\* supplied the ledger is as before.
SparseUpdate == met.sparse

SparseUpdateReached ==
    /\ op = "edit_expense" /\ result = Ok /\ Len(expenses) = 2
    /\ ret = <<expenses[2]>>
    /\ ret[1].id = 2 /\ ret[1].amount = 0 /\ ret[1].category = "rent"

\* C7: edit_expense never changes the id of a record.
IdImmutable ==
    [][op' = "edit_expense" =>
        /\ Len(expenses') = Len(expenses)
        /\ \A j \in 1..Len(expenses) : expenses'[j].id = expenses[j].id]_vars

\* ---- delete_expense -------------------------------------------------------
RECURSIVE Without(_, _)
Without(records, expense_id) ==
    IF records = <<>> THEN <<>>
    ELSE IF Head(records).id = expense_id
         THEN Without(Tail(records), expense_id)
         ELSE <<Head(records)>> \o Without(Tail(records), expense_id)

\* C8: delete_expense(id) returns normally whether or not a record has the
\* id, removes every record with the id and no other, and leaves no record
\* with the id, so that the same call made again changes nothing: a
\* delete_expense of an id no record has, made right after a delete_expense,
\* leaves every variable as it is.
DeleteContract ==
    [][\A expense_id \in Ids, how \in Reliable :
            delete_expense(expense_id, how) =>
                /\ result' = Ok
                /\ expenses' = Without(expenses, expense_id)
                /\ \A j \in 1..Len(expenses') : expenses'[j].id # expense_id
                /\ income' = income /\ spending_limits' = spending_limits
                /\ (/\ op = "delete_expense" /\ result = Ok /\ io = "ok"
                    /\ \A j \in 1..Len(expenses) : expenses[j].id # expense_id)
                        => vars' = vars]_vars

DeleteReached ==
    /\ op = "delete_expense" /\ result = Ok
    /\ Len(expenses) = 1 /\ expenses[1].id = 2

LoadNeverRaises ==
    op = "ExpenseManager" =>
        /\ result = Ok
        /\ pc = "up"
        /\ disk.kind # "object" =>
                (expenses = <<>> /\ income = 0 /\ spending_limits = EmptyLimits)

\* ---- a failed write -------------------------------------------------------
\* C11: when the save_data of a mutating call fails, the call still returns
\* normally and the process goes on; the ledger in memory is the one the call
\* produced (the record appended, the fields edited, the records removed, the
\* income or the limit set), and the file is as it was before the call, or
\* truncated by the open.
FailedWriteKeepsMutation ==
    [][io' = "failed" =>
        /\ result' = Ok
        /\ pc' = "up"
        /\ disk' \in {disk, Garbage}
        /\ met'.sparse
        /\ \A how \in SaveOutcomes :
            /\ \A amount \in FaultAmounts, category \in FaultCategories :
                add_expense(amount, category, NoDate, "", how) =>
                    /\ expenses' = Append(expenses, ret'[1])
                    /\ ret'[1].amount = amount /\ ret'[1].category = category
            /\ \A expense_id \in Ids :
                delete_expense(expense_id, how) =>
                    expenses' = Without(expenses, expense_id)
            /\ \A amount \in FaultAmounts :
                set_income(amount, how) => income' = amount
            /\ \A limit_type \in FaultLimitTypes, amount \in FaultAmounts :
                set_spending_limit(limit_type, amount, how) =>
                    spending_limits'[limit_type] = amount]_vars

\* Two add_expense calls, the second one's write failed: the second record
\* was numbered after the first in memory, and the file holds the first only.
FailedWriteReached ==
    /\ op = "add_expense" /\ result = Ok /\ io = "failed"
    /\ Len(expenses) = 2 /\ expenses[2].id = 2
    /\ disk = json_dump(<<expenses[1]>>, income, spending_limits)

\* ---- the reports ----------------------------------------------------------
\* The sum of the amounts of the records at the positions in I.
RECURSIVE Total(_)
Total(I) ==
    IF I = {} THEN 0
    ELSE LET j == CHOOSE k \in I : TRUE IN expenses[j].amount + Total(I \ {j})

Positions == 1..Len(expenses)
WellFormedDates ==
    \A j \in Positions :
        expenses[j].date \in {"2024-05-01", "2024-5-1", "2023-05-20", "2024-02-10"}

\* C12: on every ledger whose dates are well formed, the empty ledger
\* included, generate_expense_report returns; its total_expenses is the sum
\* of the amounts of all records (0 for no records) and its remaining_budget
\* is income - total_expenses, below 0 when the expenses exceed the income.
ReportTotals ==
    (op = "generate_expense_report" /\ WellFormedDates) =>
        /\ result = Ok
        /\ ret[1].total_expenses = Total(Positions)
        /\ ret[1].remaining_budget = income - Total(Positions)

\* C13: in the report that generate_expense_report returns, daily is the sum
\* of the amounts of the records dated today, monthly the sum over the
\* records whose month number is the current one, whatever their year, and
\* yearly the sum over the records whose year is the current one.
DatedToday == {j \in Positions : expenses[j].date \in {"2024-05-01", "2024-5-1"}}
DatedMay == {j \in Positions :
                expenses[j].date \in {"2024-05-01", "2024-5-1", "2023-05-20"}}
Dated2024 == {j \in Positions :
                expenses[j].date \in {"2024-05-01", "2024-5-1", "2024-02-10"}}
CurrentPeriodTotals ==
    (op = "generate_expense_report" /\ result = Ok) =>
        /\ ret[1].current_expenses.daily = Total(DatedToday)
        /\ ret[1].current_expenses.monthly = Total(DatedMay)
        /\ ret[1].current_expenses.yearly = Total(Dated2024)

\* A report on a record of May 2023 and a record of February 2024: the first
\* is in monthly and not in yearly, the second in yearly and not in monthly.
CurrentPeriodReached ==
    /\ op = "generate_expense_report" /\ result = Ok
    /\ Len(expenses) = 2
    /\ expenses[1].date = "2023-05-20" /\ expenses[1].amount = 1
    /\ expenses[2].date = "2024-02-10" /\ expenses[2].amount = 2
    /\ ret[1].current_expenses = [daily |-> 0, monthly |-> 1, yearly |-> 2]

\* C14: get_expenses_by_category returns a mapping whose keys are the
\* categories that some record has and whose value for a category is the sum
\* of the amounts of the records of that category; the call leaves the
\* ledger and the file as they were.
CategoryTotals ==
    [][get_expenses_by_category =>
        /\ result' = Ok
        /\ DOMAIN ret'[1] = {expenses[j].category : j \in Positions}
        /\ \A c \in DOMAIN ret'[1] :
                ret'[1][c] = Total({j \in Positions : expenses[j].category = c})
        /\ ledger' = ledger /\ disk' = disk]_vars

\* food 2, food 1, rent 2 gives food 3, rent 2.
CategoryTotalsReached ==
    /\ op = "get_expenses_by_category" /\ result = Ok
    /\ Len(expenses) = 3
    /\ expenses[1].category = "food" /\ expenses[1].amount = 2
    /\ expenses[2].category = "food" /\ expenses[2].amount = 1
    /\ expenses[3].category = "rent" /\ expenses[3].amount = 2
    /\ ret = <<[c \in {"food", "rent"} |-> IF c = "food" THEN 3 ELSE 2]>>

\* ---- income and limits ----------------------------------------------------
\* C15: in every state reachable from the empty ledger, income >= 0 and the
\* daily, the monthly and the yearly limit are >= 0 (>= as Python evaluates
\* it: False for nan).
NonNegative ==
    /\ le(0, income)
    /\ \A k \in {"daily", "monthly", "yearly"} : le(0, spending_limits[k])
====
